---- MODULE Spec2Model ----
(***************************************************************************)
(* Swinsian AI playlist agent: library reader, catalog encoder, curator    *)
(* reply parser and playlist materializer of swinsian_agent.py (the same   *)
(* functions appear in swinsian_ui.py, where create_playlist takes the     *)
(* extra flag randomise).                                                  *)
(*                                                                         *)
(* Strings are sequences of one-character strings, so that strip, the      *)
(* decimal rendering of an id and the "|"-joined catalog line are computed *)
(* and not assumed.                                                        *)
(***************************************************************************)
EXTENDS Integers, Sequences, FiniteSets, TLC

VARIABLES
    pc,            \* position of the run
    raw,           \* the seven property lists fetched from Swinsian
    tracks,        \* list of track dicts returned by get_library_tracks
    desc,          \* catalog_desc
    catalog,       \* the catalog lines (the list that "\n".join receives)
    sent,          \* the local list tracks of ask_claude after the sampling step
    reply,         \* message.content[0].text
    result,        \* <<playlist_name, ids, rationale>> returned by ask_claude
    err,           \* exception that left the current function, "none" if none
    errText,       \* text carried by the raised ValueError
    playlist_name, \* arguments of create_swinsian_playlist
    track_ids,
    randomise,
    selected,      \* create_swinsian_playlist: selected
    calls,         \* run_applescript calls issued so far, in order
    b,             \* index of the next batch
    added,         \* create_swinsian_playlist: added
    ret,           \* <<>> while nothing was returned, <<n>> after return n
    playlist,      \* Swinsian: positions of the tracks added to the new playlist
    exit,          \* main: <<>> while running, <<status>> once the process ended
    summary,       \* main: the last line printed, <<kind, name, count>>
    btn,           \* UI: state of gen_btn, "normal" or "disabled"
    queue,         \* UI: callbacks posted with after(0, ...), oldest first
    workers,       \* UI: the worker threads that were started, by run number
    started,       \* UI: number of worker threads started so far
    logBox,        \* UI: the last line of log_box, <<run, text>>, <<>> when empty
    seen,          \* UI: <<thread, what>> for every external call and widget write
    applied        \* UI: the gen_btn updates the foreground ran, <<run, state>>

uiVars == <<btn, queue, workers, started, logBox, seen, applied>>

mainVars == <<exit, summary>>

vars == <<pc, raw, tracks, desc, catalog, sent, reply, result, err, errText,
          playlist_name, track_ids, randomise, selected, calls, b, added, ret,
          playlist, exit, summary, btn, queue, workers, started, logBox, seen,
          applied>>

(***************************************************************************)
(* Bounds of the model.                                                    *)
(***************************************************************************)
MaxNames == 6
MaxRuns == 2      \* presses of Generate that start a worker
MaxPending == 1   \* posted updates waiting when a press is turned down
MaxIds == 5

(***************************************************************************)
(* Program constants. The three sizes are scaled down (1500, 4000 and 50   *)
(* in the source); the code only compares a length with them, halves       *)
(* MAX_TRACKS_COMPACT and slices by BATCH.                                 *)
(***************************************************************************)
MAX_TRACKS_FULL == 2
MAX_TRACKS_COMPACT == 4
BATCH == 2

(***************************************************************************)
(* Generic helpers.                                                        *)
(***************************************************************************)
Range(s) == {s[i] : i \in DOMAIN s}

SeqsUpTo(S, n) == UNION {[1..k -> S] : k \in 0..n}

Min(x, y) == IF x <= y THEN x ELSE y

RECURSIVE Concat(_)
Concat(ss) == IF ss = <<>> THEN <<>> ELSE Head(ss) \o Concat(Tail(ss))

Perms(n) == {p \in [1..n -> 1..n] : \A i, j \in 1..n : i # j => p[i] # p[j]}

\* Python slice s[lo:hi] (0-based, hi exclusive, clipped to the list).
Slice(s, lo, hi) == SubSeq(s, lo + 1, Min(hi, Len(s)))

(***************************************************************************)
(* str.strip(), str(int) and int(str).                                     *)
(***************************************************************************)
IsSpace(c) == c \in {" ", "\n"}

RECURSIVE LStrip(_)
LStrip(s) == IF s # <<>> /\ IsSpace(Head(s)) THEN LStrip(Tail(s)) ELSE s

RECURSIVE RStrip(_)
RStrip(s) ==
    IF s # <<>> /\ IsSpace(s[Len(s)]) THEN RStrip(SubSeq(s, 1, Len(s) - 1)) ELSE s

Strip(s) == RStrip(LStrip(s))

Digits == <<"0", "1", "2", "3", "4", "5", "6", "7", "8", "9">>

RECURSIVE IntToStr(_)
IntToStr(n) ==
    IF n < 10 THEN <<Digits[n + 1]>>
    ELSE IntToStr(n \div 10) \o <<Digits[(n % 10) + 1]>>

DigitVal(c) == CHOOSE d \in 0..9 : Digits[d + 1] = c

IsNumeric(s) == s # <<>> /\ \A i \in DOMAIN s : s[i] \in Range(Digits)

RECURSIVE StrToInt(_)
StrToInt(s) ==
    IF Len(s) = 1 THEN DigitVal(s[1])
    ELSE 10 * StrToInt(SubSeq(s, 1, Len(s) - 1)) + DigitVal(s[Len(s)])

(***************************************************************************)
(* The library held by Swinsian: rows of (name, play count); the other     *)
(* properties follow the position. A property list may come back shorter   *)
(* than the name list.                                                     *)
(***************************************************************************)
Row(n, p) == [name |-> n, plays |-> p]

NameRows ==
    { Row(<<" ">>, <<>>),
      Row(<<"A">>, <<>>),
      Row(<<" ", "B", "|">>, <<"2">>) }

PlayRows ==
    { Row(<<"A">>, <<>>),
      Row(<<"A">>, <<"2">>),
      Row(<<"A">>, <<"1", "0">>),
      Row(<<"A">>, <<"x">>) }

\* Ten blank names first: the tracks that follow get two-digit positions.
LongLibraries ==
    {[i \in 1..10 |-> Row(<<" ">>, <<>>)] \o s : s \in SeqsUpTo(NameRows, 2)}

Libraries ==
    SeqsUpTo(NameRows, MaxNames) \cup SeqsUpTo(PlayRows, MaxNames) \cup LongLibraries

FieldLen(n) == IF n > MAX_TRACKS_COMPACT THEN n - 1 ELSE n

RawOf(rows) ==
    LET n == Len(rows)
        m == FieldLen(n)
    IN  [ name   |-> [i \in 1..n |-> rows[i].name],
          artist |-> [i \in 1..m |-> IF i % 3 = 1 THEN <<"X", " ">> ELSE <<"Y">>],
          album  |-> [i \in 1..m |-> <<"L">>],
          genre  |-> [i \in 1..m |-> <<"G">>],
          year   |-> [i \in 1..m |-> <<"1", "9">>],
          rating |-> [i \in 1..m |-> <<"5">>],
          plays  |-> [i \in 1..n |-> rows[i].plays] ]

(***************************************************************************)
(* get_library_tracks: the loop over enumerate(names).                     *)
(***************************************************************************)
\* artists[i].strip() if i < len(artists) else ""   (i is 0-based)
FieldAt(vals, i) == IF i < Len(vals) THEN Strip(vals[i + 1]) ELSE <<>>

TrackAt(r, i) ==
    [ id     |-> i,
      title  |-> Strip(r.name[i + 1]),
      artist |-> FieldAt(r.artist, i),
      album  |-> FieldAt(r.album, i),
      genre  |-> FieldAt(r.genre, i),
      year   |-> FieldAt(r.year, i),
      rating |-> FieldAt(r.rating, i),
      plays  |-> FieldAt(r.plays, i) ]

RECURSIVE TracksFrom(_, _)
TracksFrom(r, i) ==
    IF i >= Len(r.name) THEN <<>>
    ELSE IF Strip(r.name[i + 1]) = <<>> THEN TracksFrom(r, i + 1)
    ELSE <<TrackAt(r, i)>> \o TracksFrom(r, i + 1)

\* Variant: the id is the running index over the kept tracks.
GetLibraryTracks_running(r) ==
    LET ts == TracksFrom(r, 0) IN [i \in 1..Len(ts) |-> [ts[i] EXCEPT !.id = i - 1]]

GetLibraryTracks(r) == TracksFrom(r, 0)

\* The variables of the orchestrators while a function is run on its own.
InitOther ==
    /\ exit = <<>>
    /\ summary = <<>>
    /\ btn = "normal"
    /\ queue = <<>>
    /\ workers = <<>>
    /\ started = 0
    /\ logBox = <<>>
    /\ seen = {}
    /\ applied = <<>>

NoRaw == [name |-> <<>>, artist |-> <<>>, album |-> <<>>, genre |-> <<>>,
          year |-> <<>>, rating |-> <<>>, plays |-> <<>>]

(***************************************************************************)
(* build_full_catalog / build_compact_catalog: one line per track. The     *)
(* star and play marks of the full line are written "*" and ">".           *)
(***************************************************************************)
Bar == <<"|">>

FullLine(t) ==
    IntToStr(t.id) \o Bar \o t.title \o Bar \o t.artist \o Bar \o t.album \o Bar
        \o t.genre \o Bar \o t.year \o Bar \o <<"*">> \o t.rating \o Bar
        \o <<">">> \o t.plays

CompactLine(t) == IntToStr(t.id) \o Bar \o t.title \o Bar \o t.artist

build_full_catalog(ts) == [i \in 1..Len(ts) |-> FullLine(ts[i])]

\* Variant: the first column is the position in the list that is encoded.
build_compact_catalog_enum(ts) ==
    [i \in 1..Len(ts) |-> IntToStr(i - 1) \o Bar \o ts[i].title \o Bar \o ts[i].artist]

build_compact_catalog(ts) == [i \in 1..Len(ts) |-> CompactLine(ts[i])]

FullDesc == "id|title|artist|album|genre|year|rating|plays"

CompactDesc == "id|title|artist"

(***************************************************************************)
(* The sampling branch of ask_claude_for_playlist.                         *)
(***************************************************************************)
\* int(x["plays"] or 0) raises ValueError on a non-empty, non-numeric string.
PlaysRaises(t) == t.plays # <<>> /\ ~IsNumeric(t.plays)

PlaysKey(t) == IF t.plays = <<>> THEN 0 ELSE StrToInt(t.plays)

\* sorted(..., reverse=True) is stable: equal keys keep their input order.
RECURSIVE InsertDesc(_, _)
InsertDesc(x, s) ==
    IF s = <<>> THEN <<x>>
    ELSE IF PlaysKey(Head(s)) >= PlaysKey(x) THEN <<Head(s)>> \o InsertDesc(x, Tail(s))
    ELSE <<x>> \o s

\* Variant: sorted without reverse=True (ascending, stable).
RECURSIVE InsertAsc(_, _)
InsertAsc(x, s) ==
    IF s = <<>> THEN <<x>>
    ELSE IF PlaysKey(Head(s)) <= PlaysKey(x) THEN <<Head(s)>> \o InsertAsc(x, Tail(s))
    ELSE <<x>> \o s

RECURSIVE SortedByPlays_asc(_)
SortedByPlays_asc(ts) ==
    IF ts = <<>> THEN <<>>
    ELSE InsertAsc(ts[Len(ts)], SortedByPlays_asc(SubSeq(ts, 1, Len(ts) - 1)))

RECURSIVE SortedByPlays(_)
SortedByPlays(ts) ==
    IF ts = <<>> THEN <<>>
    ELSE InsertDesc(ts[Len(ts)], SortedByPlays(SubSeq(ts, 1, Len(ts) - 1)))

Top(by_plays) == Slice(by_plays, 0, MAX_TRACKS_COMPACT \div 2)

Rest(by_plays) == Slice(by_plays, MAX_TRACKS_COMPACT \div 2, Len(by_plays))

\* random.shuffle(rest): any permutation of rest.
Shuffles(s) == {[i \in 1..Len(s) |-> s[p[i]]] : p \in Perms(Len(s))}

Sampled(top, shuffled) == top \o Slice(shuffled, 0, MAX_TRACKS_COMPACT - Len(top))

(***************************************************************************)
(* ask_claude_for_playlist up to the model call: choice of the encoding.   *)
(***************************************************************************)
\* Variant: strict comparison at the boundary.
UseFull_strict(total) == total < MAX_TRACKS_FULL

UseFull(total) == total <= MAX_TRACKS_FULL

UseCompact(total) == total <= MAX_TRACKS_COMPACT

AskEncode ==
    /\ pc = "read"
    /\ LET total == Len(tracks) IN
        \/ /\ UseFull(total)
           /\ catalog' = build_full_catalog(tracks)
           /\ desc' = FullDesc
           /\ sent' = tracks
           /\ pc' = "sent"
           /\ UNCHANGED err
        \/ /\ ~UseFull(total) /\ UseCompact(total)
           /\ catalog' = build_compact_catalog(tracks)
           /\ desc' = CompactDesc
           /\ sent' = tracks
           /\ pc' = "sent"
           /\ UNCHANGED err
        \/ /\ ~UseFull(total) /\ ~UseCompact(total)
           /\ \A i \in DOMAIN tracks : ~PlaysRaises(tracks[i])
           /\ LET by_plays == SortedByPlays(tracks) IN
                \E shuffled \in Shuffles(Rest(by_plays)) :
                    /\ sent' = Sampled(Top(by_plays), shuffled)
                    /\ catalog' = build_compact_catalog(sent')
           /\ desc' = CompactDesc
           /\ pc' = "sent"
           /\ UNCHANGED err
        \/ /\ ~UseFull(total) /\ ~UseCompact(total)
           /\ \E i \in DOMAIN tracks : PlaysRaises(tracks[i])
           /\ err' = "ValueError"
           /\ pc' = "failed"
           /\ UNCHANGED <<catalog, desc, sent>>
    /\ UNCHANGED <<raw, tracks, reply, result, errText, playlist_name, track_ids,
                   randomise, selected, calls, b, added, ret>>
    /\ UNCHANGED <<playlist, mainVars, uiVars>>

(***************************************************************************)
(* get_library_tracks as called by the orchestrator: seven bulk fetches,   *)
(* any of which may fail in run_applescript.                               *)
(***************************************************************************)
FetchLibraryFrom(libraries) ==
    /\ pc = "start"
    /\ \E rows \in libraries :
        /\ raw' = RawOf(rows)
        /\ tracks' = GetLibraryTracks(raw')
    /\ pc' = "read"
    /\ UNCHANGED <<desc, catalog, sent, reply, result, err, errText, playlist_name,
                   track_ids, randomise, selected, calls, b, added, ret>>
    /\ UNCHANGED <<playlist, mainVars, uiVars>>

FetchLibrary == FetchLibraryFrom(Libraries)

FetchLibraryFails ==
    /\ pc = "start"
    /\ err' = "RuntimeError"
    /\ pc' = "failed"
    /\ UNCHANGED <<raw, tracks, desc, catalog, sent, reply, result, errText,
                   playlist_name, track_ids, randomise, selected, calls, b, added, ret>>
    /\ UNCHANGED <<playlist, mainVars, uiVars>>

InitCatalog ==
    /\ pc = "start"
    /\ raw = NoRaw
    /\ tracks = <<>>
    /\ desc = ""
    /\ catalog = <<>>
    /\ sent = <<>>
    /\ reply = <<>>
    /\ result = <<>>
    /\ err = "none"
    /\ errText = <<>>
    /\ playlist_name = <<>>
    /\ track_ids = <<>>
    /\ randomise = TRUE
    /\ selected = <<>>
    /\ calls = <<>>
    /\ b = 0
    /\ added = 0
    /\ ret = <<>>
    /\ playlist = <<>>
    /\ InitOther

NextCatalog == FetchLibrary \/ FetchLibraryFails \/ AskEncode

SpecCatalog == InitCatalog /\ [][NextCatalog]_vars

(***************************************************************************)
(* Reading the catalog back: the id in the first column of a line, and the *)
(* materializer's lookup table id_to_track = {t["id"]: t for t in tracks}. *)
(***************************************************************************)
RECURSIVE UpToBar(_)
UpToBar(line) ==
    IF line = <<>> \/ Head(line) = "|" THEN <<>> ELSE <<Head(line)>> \o UpToBar(Tail(line))

FirstColumn(line) == StrToInt(UpToBar(line))

HasChar(line, c) == \E i \in DOMAIN line : line[i] = c

IdsOf(ts) == {ts[i].id : i \in DOMAIN ts}

\* A dict comprehension keeps the last value written under a key.
LastWith(ts, k) == ts[CHOOSE i \in DOMAIN ts :
                          ts[i].id = k /\ \A j \in DOMAIN ts : ts[j].id = k => j <= i]

IdToTrack(ts) == [k \in IdsOf(ts) |-> LastWith(ts, k)]

(***************************************************************************)
(* C1 as stated: the ids of the returned records are exactly 0..k-1, the   *)
(* post-filter running index, for any fetched name sequence.               *)
(***************************************************************************)
C1_IdsAreRunningIndex ==
    pc = "read" => \A i \in DOMAIN tracks : tracks[i].id = i - 1

(***************************************************************************)
(* C1 amended: the ids are unique and strictly increasing, and each id is  *)
(* the 0-based position of the track's name in the fetched name sequence;  *)
(* every position with a non-blank name is the id of exactly one record.   *)
(***************************************************************************)
C1_IdsAreNamePositions ==
    pc = "read" =>
        /\ \A i \in DOMAIN tracks :
              /\ tracks[i].id \in 0..(Len(raw.name) - 1)
              /\ tracks[i].title = Strip(raw.name[tracks[i].id + 1])
              /\ tracks[i].title # <<>>
        /\ \A i, j \in DOMAIN tracks : i < j => tracks[i].id < tracks[j].id
        /\ \A p \in 0..(Len(raw.name) - 1) :
              Strip(raw.name[p + 1]) # <<>> => p \in IdsOf(tracks)

C1_Witness ==
    /\ pc = "read"
    /\ Len(tracks) >= 2
    /\ \E p \in 2..(Len(raw.name) - 1) :
          /\ Strip(raw.name[p]) = <<>>
          /\ Strip(raw.name[p - 1]) # <<>>
          /\ Strip(raw.name[p + 1]) # <<>>

(***************************************************************************)
(* C2: in every encoding mode, the id in the first column of each catalog  *)
(* line resolves through id_to_track to the record that the line was       *)
(* written for, and no other record of the library carries that id.        *)
(***************************************************************************)
C2_CatalogIdsRoundTrip ==
    pc = "sent" =>
        /\ Len(catalog) = Len(sent)
        /\ \A i \in DOMAIN catalog :
              LET id == FirstColumn(catalog[i]) IN
              /\ id \in DOMAIN IdToTrack(tracks)
              /\ IdToTrack(tracks)[id] = sent[i]
              /\ \A j \in DOMAIN tracks : tracks[j].id = id => tracks[j] = sent[i]

C2_Witness ==
    /\ pc = "sent"
    /\ Len(tracks) > MAX_TRACKS_COMPACT
    /\ \E i \in DOMAIN sent : sent[i].id # i - 1 /\ FirstColumn(catalog[i]) = sent[i].id
    /\ \E i \in DOMAIN tracks : tracks[i].id # i - 1

(***************************************************************************)
(* C3: up to MAX_TRACKS_FULL tracks the full form is sent, above it and up *)
(* to MAX_TRACKS_COMPACT the compact form without genre, rating or play    *)
(* fields; in both, one line per track in input order.                     *)
(***************************************************************************)
C3_ModeByCount ==
    pc = "sent" =>
        LET n == Len(tracks) IN
        /\ n <= MAX_TRACKS_FULL =>
              /\ desc = FullDesc
              /\ Len(catalog) = n
              /\ \A i \in DOMAIN catalog :
                    /\ FirstColumn(catalog[i]) = tracks[i].id
                    /\ HasChar(catalog[i], "*") /\ HasChar(catalog[i], ">")
        /\ (MAX_TRACKS_FULL < n /\ n <= MAX_TRACKS_COMPACT) =>
              /\ desc = CompactDesc
              /\ Len(catalog) = n
              /\ \A i \in DOMAIN catalog :
                    /\ FirstColumn(catalog[i]) = tracks[i].id
                    /\ ~HasChar(catalog[i], "*") /\ ~HasChar(catalog[i], ">")
                    /\ ~HasChar(catalog[i], "G") /\ ~HasChar(catalog[i], "L")

C3_Witness ==
    /\ pc = "sent"
    /\ Len(tracks) = MAX_TRACKS_COMPACT
    /\ desc = CompactDesc
    /\ Len(catalog) = MAX_TRACKS_COMPACT

(***************************************************************************)
(* C4: above MAX_TRACKS_COMPACT tracks the sample holds MAX_TRACKS_COMPACT *)
(* distinct tracks of the library; its head is the MAX_TRACKS_COMPACT/2    *)
(* most played tracks (earlier position first among equal counts), the     *)
(* same for every shuffle, and the tail comes from outside the head.       *)
(***************************************************************************)
Half == MAX_TRACKS_COMPACT \div 2

Outranks(u, t) ==
    \/ PlaysKey(u) > PlaysKey(t)
    \/ PlaysKey(u) = PlaysKey(t) /\ u.id < t.id

MostPlayed(ts) ==
    {t \in Range(ts) : Cardinality({u \in Range(ts) : Outranks(u, t)}) < Half}

C4_SampleHeadAndTail ==
    (pc = "sent" /\ Len(tracks) > MAX_TRACKS_COMPACT) =>
        LET head == {sent[i] : i \in 1..Half}
            tail == {sent[i] : i \in (Half + 1)..Len(sent)}
        IN  /\ Len(sent) = MAX_TRACKS_COMPACT
            /\ Range(sent) \subseteq Range(tracks)
            /\ \A i, j \in DOMAIN sent : i # j => sent[i].id # sent[j].id
            /\ head = MostPlayed(tracks)
            /\ \A h \in head : \A t \in Range(tracks) \ head : PlaysKey(h) >= PlaysKey(t)
            /\ tail \cap head = {}

C4_Witness ==
    /\ pc = "sent"
    /\ Len(tracks) > MAX_TRACKS_COMPACT + 1
    /\ \E i, j \in DOMAIN tracks : PlaysKey(tracks[i]) < PlaysKey(tracks[j]) /\ i < j
    /\ PlaysKey(sent[Len(sent)]) > PlaysKey(sent[Len(sent) - 1])

(***************************************************************************)
(* C5 as stated: in the sampling regime a play count that is empty or not  *)
(* a number counts as 0 and the curation step does not fail because of it. *)
(***************************************************************************)
C5_BadPlayCountIsZero ==
    (pc \in {"sent", "failed"} /\ Len(tracks) > MAX_TRACKS_COMPACT) =>
        /\ pc = "sent"
        /\ err = "none"

(***************************************************************************)
(* The reply of the model. A reply is a sequence of characters; "FENCE" (3 *)
(* backquotes), "M1".."M3" (a complete member list of a JSON object, such  *)
(* as "playlist_name": "T", "ids": [2, 0, 9], "rationale": "k") and "7" (a *)
(* JSON number) stand for the runs of characters they name. "a" is a lower *)
(* case letter, "Z" any other character of prose; no run of letters used   *)
(* here spells true, false or null.                                        *)
(***************************************************************************)
Fence == "FENCE"

Members ==
    [ M1 |-> [playlist_name |-> <<"T">>, ids |-> <<2, 0, 9>>, rationale |-> <<"k">>],
      M2 |-> [playlist_name |-> <<"U">>, ids |-> <<0>>, rationale |-> <<>>],
      M3 |-> [ids |-> <<2, 2>>] ]

Objects ==
    { <<"{", "M1", "}">>,
      <<"{", "\n", "M2", "\n", "}">>,
      <<"{", "M3", "}">>,
      <<"{", "}">> }

FenceOpens == { <<Fence, "\n">>, <<Fence, "a", "a", "\n">>, <<Fence, "Z", "\n">> }

FenceCloses == { <<"\n", Fence>> }

ProseBefore == { <<"Z", "a", " ">>, <<"Z", "a", "\n", Fence, "a", "\n">> }

ProseAfter == { <<"\n", "Z", "a">>, <<"\n", Fence, "\n", "a">> }

BraceProseBefore == { <<"Z", "{", "a", "}", "\n">> }

BraceProseAfter == { <<" ", "a", "}">>, <<"\n", "{", "a", "}">> }

Cores ==
    Objects \cup
    { <<"{", "M1">>,             \* cut off before the closing brace
      <<"M1", "}">>,
      <<"{", "M1", "M2", "}">>,  \* not JSON
      <<"7">>,                   \* JSON, but no object
      <<"Z", "a">>,
      <<>> }

Prefixes ==
    {<<>>, <<"\n">>} \cup FenceOpens \cup ProseBefore \cup BraceProseBefore

Suffixes ==
    {<<>>, <<"\n">>, <<Fence>>} \cup FenceCloses \cup ProseAfter \cup BraceProseAfter

Replies == {pre \o core \o post : pre \in Prefixes, core \in Cores, post \in Suffixes}

(***************************************************************************)
(* The two re.sub calls: an opening fence with its lower-case tag and one   *)
(* newline is cut from the start, a closing fence with the newline before  *)
(* it from the end.                                                        *)
(***************************************************************************)
RECURSIVE DropLower(_)
DropLower(s) == IF s # <<>> /\ Head(s) = "a" THEN DropLower(Tail(s)) ELSE s

DropNewline(s) == IF s # <<>> /\ Head(s) = "\n" THEN Tail(s) ELSE s

StripFenceOpen(s) ==
    IF s # <<>> /\ Head(s) = Fence THEN DropNewline(DropLower(Tail(s))) ELSE s

Front(s) == SubSeq(s, 1, Len(s) - 1)

DropLastNewline(s) == IF s # <<>> /\ s[Len(s)] = "\n" THEN Front(s) ELSE s

\* $ matches at the end and before a newline that ends the string.
StripFenceClose(s) ==
    IF s # <<>> /\ s[Len(s)] = Fence THEN DropLastNewline(Front(s))
    ELSE IF Len(s) >= 2 /\ s[Len(s)] = "\n" /\ s[Len(s) - 1] = Fence
         THEN DropLastNewline(SubSeq(s, 1, Len(s) - 2)) \o <<"\n">>
    ELSE s

(***************************************************************************)
(* json.loads on these characters: white space between tokens is skipped;  *)
(* {} and { members } are objects, a run of digits is a number, anything   *)
(* else raises JSONDecodeError.                                            *)
(***************************************************************************)
RECURSIVE SkipSpace(_)
SkipSpace(s) ==
    IF s = <<>> THEN <<>>
    ELSE IF IsSpace(Head(s)) THEN SkipSpace(Tail(s))
    ELSE <<Head(s)>> \o SkipSpace(Tail(s))

JsonError == [kind |-> "error"]

JsonLoads(s) ==
    LET t == SkipSpace(s) IN
    IF t = <<"{", "}">> THEN [kind |-> "object", val |-> <<>>]
    ELSE IF Len(t) = 3 /\ t[1] = "{" /\ t[2] \in DOMAIN Members /\ t[3] = "}"
         THEN [kind |-> "object", val |-> Members[t[2]]]
    ELSE IF IsNumeric(Strip(s)) THEN [kind |-> "number"]
    ELSE JsonError

(***************************************************************************)
(* re.search(r'\{.*\}', raw, re.DOTALL): from the first "{" to the last    *)
(* "}" after it.                                                           *)
(***************************************************************************)
Opens(s) == {i \in DOMAIN s : s[i] = "{"}

FirstOpen(s) == CHOOSE i \in Opens(s) : \A j \in Opens(s) : i <= j

Closes(s) == {i \in DOMAIN s : s[i] = "}" /\ Opens(s) # {} /\ i > FirstOpen(s)}

HasSpan(s) == Closes(s) # {}

Span(s) == SubSeq(s, FirstOpen(s), CHOOSE i \in Closes(s) : \A j \in Closes(s) : j <= i)

(***************************************************************************)
(* ask_claude_for_playlist from the reply on: the parse and the three      *)
(* data.get calls.                                                         *)
(***************************************************************************)
DefaultName == <<"A", "I", " ", "P", "l", "a", "y", "l", "i", "s", "t">>

DictGet(d, k, default) == IF k \in DOMAIN d THEN d[k] ELSE default

ResultOf(d) ==
    << DictGet(d, "playlist_name", DefaultName),
       DictGet(d, "ids", <<>>),
       DictGet(d, "rationale", <<>>) >>

Outcome(e, text, res) == [err |-> e, errText |-> text, result |-> res]

\* data.get on the parsed value: a number has no attribute get.
Returned(data) ==
    IF data.kind = "object" THEN Outcome("none", <<>>, ResultOf(data.val))
    ELSE Outcome("AttributeError", <<>>, <<>>)

StripFences(text) == StripFenceClose(StripFenceOpen(Strip(text)))

\* Variant: no second attempt on the {...} span.
ParseReply_direct(text) ==
    LET rawText == StripFences(text)
        direct == JsonLoads(rawText)
    IN  IF direct # JsonError THEN Returned(direct)
        ELSE Outcome("ValueError", rawText, <<>>)

ParseReply(text) ==
    LET rawText == StripFences(text)
        direct == JsonLoads(rawText)
    IN  IF direct # JsonError THEN Returned(direct)
        ELSE IF HasSpan(rawText)
             THEN LET second == JsonLoads(Span(rawText)) IN
                  IF second # JsonError THEN Returned(second)
                  ELSE Outcome("JSONDecodeError", <<>>, <<>>)
        ELSE Outcome("ValueError", rawText, <<>>)

AskReply ==
    /\ pc = "sent"
    /\ \E text \in Replies :
        /\ reply' = text
        /\ LET out == ParseReply(text) IN
            /\ err' = out.err
            /\ errText' = out.errText
            /\ result' = out.result
            /\ pc' = IF out.err = "none" THEN "asked" ELSE "failed"
    /\ UNCHANGED <<raw, tracks, desc, catalog, sent, playlist_name, track_ids,
                   randomise, selected, calls, b, added, ret>>
    /\ UNCHANGED <<playlist, mainVars, uiVars>>

\* client.messages.create raises (credential, network or service error).
ModelCallFails ==
    /\ pc = "sent"
    /\ err' = "APIError"
    /\ pc' = "failed"
    /\ UNCHANGED <<raw, tracks, desc, catalog, sent, reply, result, errText,
                   playlist_name, track_ids, randomise, selected, calls, b, added, ret>>
    /\ UNCHANGED <<playlist, mainVars, uiVars>>

(***************************************************************************)
(* The parser on its own: the run stands at the model call, with the       *)
(* catalog of a three-track library sent.                                  *)
(***************************************************************************)
ReplyLibrary ==
    << Row(<<"A">>, <<"2">>), Row(<<" ">>, <<>>), Row(<<" ", "B", "|">>, <<>>) >>

InitReply ==
    /\ pc = "sent"
    /\ raw = RawOf(ReplyLibrary)
    /\ tracks = GetLibraryTracks(raw)
    /\ desc = FullDesc
    /\ catalog = build_full_catalog(tracks)
    /\ sent = tracks
    /\ reply = <<>>
    /\ result = <<>>
    /\ err = "none"
    /\ errText = <<>>
    /\ playlist_name = <<>>
    /\ track_ids = <<>>
    /\ randomise = TRUE
    /\ selected = <<>>
    /\ calls = <<>>
    /\ b = 0
    /\ added = 0
    /\ ret = <<>>
    /\ playlist = <<>>
    /\ InitOther

NextReply == AskReply \/ ModelCallFails

SpecReply == InitReply /\ [][NextReply]_vars

(***************************************************************************)
(* Wrappings of a JSON object J: none, a code fence, prose around it.      *)
(***************************************************************************)
Wrappings(before, after) ==
    ({<<>>} \X {<<>>}) \cup (FenceOpens \X FenceCloses)
        \cup ((before \cup {<<>>}) \X (after \cup {<<>>}))

\* The objects that carry all three keys of the response format.
SchemaObjects == {J \in Objects : DOMAIN JsonLoads(J).val = {"playlist_name", "ids", "rationale"}}

SameParse(objs, before, after) ==
    \A J \in objs : \A w \in Wrappings(before, after) :
        reply = w[1] \o J \o w[2] =>
            /\ pc = "asked"
            /\ err = "none"
            /\ result = ResultOf(JsonLoads(J).val)

(***************************************************************************)
(* C6 as stated: J alone, J in a code fence and J with any prose before    *)
(* and/or after it parse to the same (name, ids, rationale).               *)
(***************************************************************************)
C6_AnyWrappingSameParse ==
    pc \in {"asked", "failed"} =>
        SameParse(SchemaObjects, ProseBefore \cup BraceProseBefore,
                  ProseAfter \cup BraceProseAfter)

(***************************************************************************)
(* C6 amended: J alone, J in a code fence (with or without language tag)   *)
(* and J with prose that contains neither "{" nor "}" before and/or after  *)
(* it parse to the same (name, ids, rationale); so do objects that lack    *)
(* some of the three keys.                                                 *)
(***************************************************************************)
C6_BracelessWrappingSameParse ==
    pc \in {"asked", "failed"} => SameParse(Objects, ProseBefore, ProseAfter)

C6_Witness ==
    /\ pc = "asked"
    /\ reply = <<"Z", "a", "\n", Fence, "a", "\n">> \o <<"{", "M1", "}">> \o <<"\n", "Z", "a">>
    /\ result = << <<"T">>, <<2, 0, 9>>, <<"k">> >>

(***************************************************************************)
(* C7 as stated: when no JSON object is obtained from the reply, the only  *)
(* failure of the parse is the ValueError that carries the reply text;     *)
(* neither a JSONDecodeError nor an AttributeError reaches the caller.     *)
(***************************************************************************)
C7_OnlyProtocolError ==
    (pc = "failed" /\ err # "APIError") =>
        /\ err = "ValueError"
        /\ errText = StripFences(reply)

(***************************************************************************)
(* create_swinsian_playlist (create_playlist in the UI, where the shuffle  *)
(* is done only if randomise; the command line always shuffles).           *)
(***************************************************************************)
\* s.replace("\\", "\\\\").replace('"', '\\"')
RECURSIVE Replace(_, _, _)
Replace(s, c, with) ==
    IF s = <<>> THEN <<>>
    ELSE (IF Head(s) = c THEN with ELSE <<Head(s)>>) \o Replace(Tail(s), c, with)

Escape(s) == Replace(Replace(s, "\\", <<"\\", "\\">>), "\"", <<"\\", "\"">>)

\* Variant: the tracks that were picked, in library order.
ResolveIds_libraryOrder(ids, ts) ==
    SelectSeq(ts, LAMBDA t : \E k \in DOMAIN ids : ids[k] = t.id)

\* [id_to_track[i] for i in track_ids if i in id_to_track]
RECURSIVE ResolveIds(_, _)
ResolveIds(ids, ts) ==
    IF ids = <<>> THEN <<>>
    ELSE (IF Head(ids) \in DOMAIN IdToTrack(ts) THEN <<IdToTrack(ts)[Head(ids)]>> ELSE <<>>)
             \o ResolveIds(Tail(ids), ts)

\* Variant: integer division, the last short batch is lost.
NumBatches_floor(m) == m \div BATCH

\* math.ceil(len(selected) / BATCH)
NumBatches(m) == (m + BATCH - 1) \div BATCH

Chunk(sel, k) == Slice(sel, k * BATCH, (k + 1) * BATCH)

Lookup(t) == <<Escape(t.title), Escape(t.artist)>>

CreateCall(ok) == [kind |-> "create", name |-> Escape(playlist_name), ok |-> ok]

BatchCall(k, ok) ==
    [ kind  |-> "batch",
      index |-> k,
      name  |-> Escape(playlist_name),
      chunk |-> Chunk(selected, k),
      items |-> [i \in DOMAIN Chunk(selected, k) |-> Lookup(Chunk(selected, k)[i])],
      ok    |-> ok ]

(***************************************************************************)
(* What Swinsian does with a batch script: for each pair, the tracks whose *)
(* name and artist are exactly the two string literals; if there is one,   *)
(* the first is added to the playlist. The library is the one that was     *)
(* read (raw), with names and artists as stored, not stripped.             *)
(***************************************************************************)
\* The string an AppleScript literal denotes: \\ is a backslash, \" a quote.
RECURSIVE Unescape(_)
Unescape(s) ==
    IF s = <<>> THEN <<>>
    ELSE IF Head(s) = "\\" /\ Len(s) >= 2 THEN <<s[2]>> \o Unescape(Tail(Tail(s)))
    ELSE <<Head(s)>> \o Unescape(Tail(s))

LiveArtist(p) == IF p <= Len(raw.artist) THEN raw.artist[p] ELSE <<>>

Found(item) ==
    {p \in DOMAIN raw.name :
        raw.name[p] = Unescape(item[1]) /\ LiveArtist(p) = Unescape(item[2])}

FirstFound(item) == CHOOSE p \in Found(item) : \A q \in Found(item) : p <= q

RECURSIVE AddedBy(_)
AddedBy(items) ==
    IF items = <<>> THEN <<>>
    ELSE (IF Found(Head(items)) # {} THEN <<FirstFound(Head(items)) - 1>> ELSE <<>>)
             \o AddedBy(Tail(items))

MatUnchanged == <<raw, tracks, desc, catalog, sent, reply, result, errText,
                  playlist_name, track_ids, randomise, mainVars, uiVars>>

\* Lines 164-170: lookup, shuffle, and the early return on an empty selection.
Resolve ==
    /\ pc = "create"
    /\ LET resolved == ResolveIds(track_ids, tracks) IN
        \E sel \in (IF randomise THEN Shuffles(resolved) ELSE {resolved}) :
            /\ selected' = sel
            /\ IF sel = <<>>
               THEN pc' = "returned" /\ ret' = <<0>>
               ELSE pc' = "new_playlist" /\ ret' = ret
    /\ UNCHANGED <<calls, b, added, err>>
    /\ UNCHANGED MatUnchanged
    /\ UNCHANGED playlist

\* Lines 175-186: the New Playlist menu script.
NewPlaylist ==
    /\ pc = "new_playlist"
    /\ calls' = Append(calls, CreateCall(TRUE))
    /\ b' = 0
    /\ added' = 0
    /\ pc' = "batches"
    /\ UNCHANGED <<selected, err, ret>>
    /\ UNCHANGED MatUnchanged
    /\ UNCHANGED playlist

NewPlaylistFails ==
    /\ pc = "new_playlist"
    /\ calls' = Append(calls, CreateCall(FALSE))
    /\ err' = "RuntimeError"
    /\ pc' = "failed"
    /\ UNCHANGED <<selected, b, added, ret>>
    /\ UNCHANGED MatUnchanged
    /\ UNCHANGED playlist

\* Lines 193-206: one pass of the loop over range(batches).
Batch ==
    /\ pc = "batches"
    /\ b < NumBatches(Len(selected))
    /\ calls' = Append(calls, BatchCall(b, TRUE))
    /\ playlist' = playlist \o AddedBy(BatchCall(b, TRUE).items)
    /\ added' = added + Len(Chunk(selected, b))
    /\ b' = b + 1
    /\ UNCHANGED <<pc, selected, err, ret>>
    /\ UNCHANGED MatUnchanged

\* A failing batch script stops at one of its items; what it added stays.
\* Variant: the error of a batch is swallowed and the loop goes on.
BatchFails_swallow ==
    /\ pc = "batches"
    /\ b < NumBatches(Len(selected))
    /\ calls' = Append(calls, BatchCall(b, FALSE))
    /\ \E n \in 0..(Len(Chunk(selected, b)) - 1) :
          playlist' = playlist \o AddedBy(SubSeq(BatchCall(b, FALSE).items, 1, n))
    /\ b' = b + 1
    /\ UNCHANGED <<pc, selected, added, err, ret>>
    /\ UNCHANGED MatUnchanged

BatchFails ==
    /\ pc = "batches"
    /\ b < NumBatches(Len(selected))
    /\ calls' = Append(calls, BatchCall(b, FALSE))
    /\ \E n \in 0..(Len(Chunk(selected, b)) - 1) :
          playlist' = playlist \o AddedBy(SubSeq(BatchCall(b, FALSE).items, 1, n))
    /\ err' = "RuntimeError"
    /\ pc' = "failed"
    /\ UNCHANGED <<selected, b, added, ret>>
    /\ UNCHANGED MatUnchanged

\* Line 208.
Return ==
    /\ pc = "batches"
    /\ b >= NumBatches(Len(selected))
    /\ ret' = <<Len(selected)>>
    /\ pc' = "returned"
    /\ UNCHANGED <<selected, calls, b, added, err>>
    /\ UNCHANGED MatUnchanged
    /\ UNCHANGED playlist

(***************************************************************************)
(* The materializer on its own: called with any id list on the tracks of a *)
(* library whose second name is blank (ids 0 and 2).                       *)
(***************************************************************************)
MatLibrary ==
    << Row(<<"A">>, <<"2">>), Row(<<" ">>, <<>>), Row(<<"B", "\"", "\\">>, <<>>) >>

IdValues == {0, 2, 9}

InitMaterialize ==
    /\ pc = "create"
    /\ raw = RawOf(MatLibrary)
    /\ tracks = GetLibraryTracks(raw)
    /\ desc = FullDesc
    /\ catalog = build_full_catalog(tracks)
    /\ sent = tracks
    /\ reply = <<>>
    /\ result = <<>>
    /\ err = "none"
    /\ errText = <<>>
    /\ playlist_name = <<"T", "\"">>
    /\ track_ids \in SeqsUpTo(IdValues, MaxIds)
    /\ randomise \in BOOLEAN
    /\ selected = <<>>
    /\ calls = <<>>
    /\ b = 0
    /\ added = 0
    /\ ret = <<>>
    /\ playlist = <<>>
    /\ InitOther

NextMaterialize ==
    Resolve \/ NewPlaylist \/ NewPlaylistFails \/ Batch \/ BatchFails \/ Return

SpecMaterialize == InitMaterialize /\ [][NextMaterialize]_vars

(***************************************************************************)
(* C8: the resolved sequence is the subsequence of the ids that identify a *)
(* track, each mapped to its record, in the order given (before the        *)
(* shuffle); unknown ids are dropped without an error and the returned     *)
(* count is the number of resolved tracks.                                 *)
(***************************************************************************)
TrackWithId(k) == CHOOSE t \in Range(tracks) : t.id = k

KnownIds == SelectSeq(track_ids, LAMBDA k : \E t \in Range(tracks) : t.id = k)

ExpectedSelection == [i \in DOMAIN KnownIds |-> TrackWithId(KnownIds[i])]

Count(s, x) == Cardinality({i \in DOMAIN s : s[i] = x})

SameBag(s, t) ==
    /\ Len(s) = Len(t)
    /\ \A x \in Range(s) \cup Range(t) : Count(s, x) = Count(t, x)

C8_ResolveDropsUnknownIds ==
    pc \in {"new_playlist", "batches", "returned", "failed"} =>
        /\ ~randomise => selected = ExpectedSelection
        /\ randomise => SameBag(selected, ExpectedSelection)
        /\ pc = "returned" => (err = "none" /\ ret = <<Len(KnownIds)>>)
        /\ pc = "failed" => \E k \in DOMAIN calls : ~calls[k].ok

C8_Witness ==
    /\ pc = "returned"
    /\ track_ids = <<2, 0, 9>>
    /\ ~randomise
    /\ [i \in DOMAIN selected |-> selected[i].id] = <<2, 0>>
    /\ ret = <<2>>

(***************************************************************************)
(* C9: a call that returns has issued no script at all when nothing was    *)
(* resolved (and returns 0); otherwise one playlist creation first and     *)
(* then ceil(m/BATCH) batch scripts whose chunks, in order, cut the        *)
(* selection into consecutive slices of BATCH, only the last one shorter.  *)
(***************************************************************************)
ChunksOf(cs) == Concat([k \in 1..(Len(cs) - 1) |-> cs[k + 1].chunk])

C9_CallsFollowSelection ==
    LET m == Len(selected) IN
    /\ \A k \in DOMAIN calls : (calls[k].kind = "create") <=> (k = 1)
    /\ calls # <<>> =>
          /\ m > 0
          /\ ChunksOf(calls) = SubSeq(selected, 1, Len(ChunksOf(calls)))
          /\ \A k \in 2..(Len(calls) - 1) : Len(calls[k].chunk) = BATCH
          /\ \A k \in 2..Len(calls) : Len(calls[k].chunk) \in 1..BATCH
    /\ pc = "returned" =>
          IF m = 0 THEN calls = <<>> /\ ret = <<0>>
          ELSE /\ ChunksOf(calls) = selected
               /\ (Len(calls) - 2) * BATCH < m
               /\ m <= (Len(calls) - 1) * BATCH

C9_Witness ==
    /\ pc = "returned"
    /\ randomise
    /\ Len(selected) = 2 * BATCH + 1
    /\ Len(calls) = 4
    /\ Len(calls[4].chunk) = 1
    /\ selected # ExpectedSelection

(***************************************************************************)
(* C10: a failed script ends the call with the bridge error: the failed    *)
(* call is the last one issued, nothing is returned, and no batch is       *)
(* submitted twice.                                                        *)
(***************************************************************************)
C10_BridgeErrorEndsCall ==
    /\ \A k \in DOMAIN calls :
          ~calls[k].ok =>
              /\ k = Len(calls)
              /\ pc = "failed"
              /\ err = "RuntimeError"
              /\ ret = <<>>
    /\ \A j, k \in DOMAIN calls :
          (j < k /\ calls[j].kind = "batch" /\ calls[k].kind = "batch") =>
              calls[j].index < calls[k].index
    /\ pc = "failed" => (calls # <<>> /\ ~calls[Len(calls)].ok /\ ret = <<>>)
    /\ ret # <<>> => \A k \in DOMAIN calls : calls[k].ok

C10_Witness ==
    /\ pc = "failed"
    /\ Len(selected) > 2 * BATCH
    /\ Len(calls) = 3
    /\ ~calls[3].ok
    /\ calls[2].ok

(***************************************************************************)
(* C11 as stated: the value returned by the materializer is the number of  *)
(* tracks added to the playlist; a resolved track without a match in the   *)
(* library is skipped and not counted.                                     *)
(***************************************************************************)
C11_ReturnsTracksAdded ==
    pc = "returned" => ret = <<Len(playlist)>>

(***************************************************************************)
(* main() of the command-line program. exit is the status the process ends *)
(* with: sys.exit(1) in every handler, 0 when main returns. summary is the *)
(* last line it printed.                                                   *)
(***************************************************************************)
MainLibraries ==
    { <<>>,
      << Row(<<"A">>, <<"2">>) >>,
      MatLibrary,
      [i \in 1..MAX_TRACKS_COMPACT |-> Row(<<"A">>, <<"2">>)],
      [i \in 1..(MAX_TRACKS_COMPACT + 1) |-> Row(<<"A">>, <<"2">>)],
      [i \in 1..(MAX_TRACKS_COMPACT + 1) |-> Row(<<"A">>, <<"x">>)] }

\* Lines 212-220: the prompt from the arguments or from input().
MainPrompt ==
    /\ pc = "main"
    /\ \E given \in BOOLEAN :
        IF given
        THEN pc' = "probe" /\ UNCHANGED mainVars
        ELSE pc' = "exited" /\ exit' = <<1>> /\ summary' = <<"no prompt">>
    /\ UNCHANGED <<raw, tracks, desc, catalog, sent, reply, result, err, errText,
                   playlist_name, track_ids, randomise, selected, calls, b, added,
                   ret, playlist, uiVars>>

\* Lines 225-227: is_swinsian_running().
MainProbe ==
    /\ pc = "probe"
    /\ \E running \in BOOLEAN :
        IF running
        THEN pc' = "start" /\ UNCHANGED mainVars
        ELSE pc' = "exited" /\ exit' = <<1>> /\ summary' = <<"not running">>
    /\ UNCHANGED <<raw, tracks, desc, catalog, sent, reply, result, err, errText,
                   playlist_name, track_ids, randomise, selected, calls, b, added,
                   ret, playlist, uiVars>>

MainFetch == FetchLibraryFrom(MainLibraries)

\* Lines 235-237.
MainEmptyLibrary ==
    /\ pc = "read"
    /\ tracks = <<>>
    /\ pc' = "exited"
    /\ exit' = <<1>>
    /\ summary' = <<"empty library">>
    /\ UNCHANGED <<raw, tracks, desc, catalog, sent, reply, result, err, errText,
                   playlist_name, track_ids, randomise, selected, calls, b, added,
                   ret, playlist, uiVars>>

\* Line 242: the call of ask_claude_for_playlist, up to the request.
MainAsk ==
    /\ tracks # <<>>
    /\ AskEncode

\* Variant: the result goes to the materializer with whatever ids it has.
MainCheckIds_unchecked ==
    /\ pc = "asked"
    /\ playlist_name' = result[1]
    /\ track_ids' = result[2]
    /\ pc' = "create"
    /\ UNCHANGED <<raw, tracks, desc, catalog, sent, reply, result, err, errText,
                   randomise, selected, calls, b, added, ret, playlist, mainVars,
                   uiVars>>

\* Lines 242 and 247-249: the tuple is unpacked, an empty id list ends the run.
MainCheckIds ==
    /\ pc = "asked"
    /\ playlist_name' = result[1]
    /\ track_ids' = result[2]
    /\ IF result[2] = <<>>
       THEN pc' = "exited" /\ exit' = <<1>> /\ summary' = <<"no tracks">>
       ELSE pc' = "create" /\ UNCHANGED mainVars
    /\ UNCHANGED <<raw, tracks, desc, catalog, sent, reply, result, err, errText,
                   randomise, selected, calls, b, added, ret, playlist, uiVars>>

\* The try block an exception was raised in: lines 229, 241 and 254.
FailedIn ==
    IF calls # <<>> THEN "create error"
    ELSE IF tracks # <<>> THEN "API error"
    ELSE "read error"

\* Lines 231-233, 243-245 and 256-258: the handlers.
MainCatch ==
    /\ pc = "failed"
    /\ pc' = "exited"
    /\ exit' = <<1>>
    /\ summary' = <<FailedIn>>
    /\ UNCHANGED <<raw, tracks, desc, catalog, sent, reply, result, err, errText,
                   playlist_name, track_ids, randomise, selected, calls, b, added,
                   ret, playlist, uiVars>>

\* Lines 260-262: the success lines; main returns and the status is 0.
MainDone ==
    /\ pc = "returned"
    /\ pc' = "exited"
    /\ exit' = <<0>>
    /\ summary' = <<"created", playlist_name, ret[1]>>
    /\ UNCHANGED <<raw, tracks, desc, catalog, sent, reply, result, err, errText,
                   playlist_name, track_ids, randomise, selected, calls, b, added,
                   ret, playlist, uiVars>>

InitMain ==
    /\ pc = "main"
    /\ raw = NoRaw
    /\ tracks = <<>>
    /\ desc = ""
    /\ catalog = <<>>
    /\ sent = <<>>
    /\ reply = <<>>
    /\ result = <<>>
    /\ err = "none"
    /\ errText = <<>>
    /\ playlist_name = <<>>
    /\ track_ids = <<>>
    /\ randomise = TRUE
    /\ selected = <<>>
    /\ calls = <<>>
    /\ b = 0
    /\ added = 0
    /\ ret = <<>>
    /\ playlist = <<>>
    /\ InitOther

NextMain ==
    \/ MainPrompt \/ MainProbe
    \/ MainFetch \/ FetchLibraryFails \/ MainEmptyLibrary
    \/ MainAsk \/ AskReply \/ ModelCallFails \/ MainCheckIds
    \/ Resolve \/ NewPlaylist \/ NewPlaylistFails \/ Batch \/ BatchFails \/ Return
    \/ MainCatch \/ MainDone

SpecMain == InitMain /\ [][NextMain]_vars

(***************************************************************************)
(* C12: the command-line run ends with status 1, and with no later stage   *)
(* executed, when Swinsian is not running, the library read fails, the     *)
(* library is empty, the model call or the parsing of its reply fails, the *)
(* result has no ids, or the materializer raises; it ends with status 0    *)
(* only after the materializer returned, and then the last line printed    *)
(* carries the playlist name and the returned count.                       *)
(***************************************************************************)
NothingRead == raw = NoRaw /\ tracks = <<>>

ModelNotCalled == desc = "" /\ sent = <<>> /\ reply = <<>> /\ result = <<>>

NotMaterialized == selected = <<>> /\ calls = <<>> /\ ret = <<>> /\ playlist = <<>>

Ended(kind) == pc = "exited" /\ exit = <<1>> /\ summary = <<kind>>

C12_ExitStatus ==
    /\ pc # "exited" <=> exit = <<>>
    /\ pc = "exited" =>
        \/ Ended("no prompt") /\ NothingRead /\ ModelNotCalled /\ NotMaterialized
        \/ Ended("not running") /\ NothingRead /\ ModelNotCalled /\ NotMaterialized
        \/ Ended("read error") /\ err = "RuntimeError" /\ NothingRead
              /\ ModelNotCalled /\ NotMaterialized
        \/ Ended("empty library") /\ tracks = <<>> /\ ModelNotCalled /\ NotMaterialized
        \/ Ended("API error") /\ err # "none" /\ result = <<>> /\ NotMaterialized
        \/ Ended("no tracks") /\ result[2] = <<>> /\ NotMaterialized
        \/ Ended("create error") /\ err = "RuntimeError" /\ ret = <<>>
        \/ /\ exit = <<0>>
           /\ err = "none"
           /\ tracks # <<>>
           /\ track_ids # <<>>
           /\ ret = <<Len(selected)>>
           /\ summary = <<"created", playlist_name, ret[1]>>

\* A batch script failed after the playlist was created: the run ended with 1.
C12_Witness ==
    /\ Ended("create error")
    /\ Len(calls) >= 2
    /\ playlist # <<>>

(***************************************************************************)
(* The window (swinsian_ui.py). Two kinds of thread: the foreground, which *)
(* runs the Tk event loop ("fg"), and the worker threads started by _run.  *)
(* after(0, f) puts f on the queue; the foreground runs the callbacks in   *)
(* the order they were posted. A worker is a record; its steps are the     *)
(* stretches of _worker from one external call to the next. Of the lines a *)
(* worker logs, the ones with a fixed text (the prompt, the headings, the  *)
(* blank lines) are left out; the ones that tell a count or an outcome are *)
(* posted.                                                                 *)
(***************************************************************************)
pipeVars == <<pc, raw, tracks, desc, catalog, sent, reply, result, err, errText,
              playlist_name, track_ids, randomise, selected, calls, b, added, ret,
              playlist, mainVars>>

LogItem(k, text) == [kind |-> "log", run |-> k, what |-> text]

BtnItem(k, state) == [kind |-> "btn", run |-> k, what |-> <<state>>]

\* self._log(...) once for each text, in order.
RECURSIVE Post(_, _, _)
Post(q, k, texts) ==
    IF texts = <<>> THEN q
    ELSE Post(Append(q, LogItem(k, Head(texts))), k, Tail(texts))

\* self._set_running(...)
SetRunning(q, k, running) ==
    Append(q, BtnItem(k, IF running THEN "disabled" ELSE "normal"))

NewWorker ==
    [ pc |-> "begin", tracks |-> <<>>, name |-> <<>>, ids |-> <<>>,
      selected |-> <<>>, b |-> 0, fetched |-> FALSE, modelCalled |-> FALSE,
      asked |-> FALSE, createCalled |-> FALSE, reported |-> FALSE,
      failed |-> FALSE ]

\* Lines 446-472: the command of gen_btn. A disabled button runs no command.
Press ==
    /\ btn = "normal"
    /\ \E valid, running \in BOOLEAN :
        \/ /\ ~valid
           /\ Len(queue) < MaxPending
           /\ queue' = Post(queue, 0, << <<"invalid input">> >>)
           /\ UNCHANGED <<workers, started, logBox, seen>>
        \/ /\ valid /\ ~running
           /\ Len(queue) < MaxPending
           /\ seen' = seen \cup {<<"fg", "probe">>}
           /\ queue' = Post(queue, 0, << <<"not running">> >>)
           /\ UNCHANGED <<workers, started, logBox>>
        \/ /\ valid /\ running
           /\ started < MaxRuns
           /\ seen' = seen \cup {<<"fg", "probe">>, <<"fg", "widget">>}
           /\ logBox' = <<>>
           /\ started' = started + 1
           /\ queue' = SetRunning(queue, started', TRUE)
           /\ workers' = Append(workers, NewWorker)
    /\ UNCHANGED <<btn, applied>>
    /\ UNCHANGED pipeVars

\* The event loop runs the oldest posted callback: _write or _update.
ApplyUpdate ==
    /\ queue # <<>>
    /\ LET item == Head(queue) IN
        /\ IF item.kind = "log"
           THEN /\ logBox' = <<item.run, item.what>>
                /\ UNCHANGED <<btn, applied>>
           ELSE /\ btn' = item.what[1]
                /\ applied' = Append(applied, <<item.run, item.what[1]>>)
                /\ UNCHANGED logBox
    /\ queue' = Tail(queue)
    /\ seen' = seen \cup {<<"fg", "widget">>}
    /\ UNCHANGED <<workers, started>>
    /\ UNCHANGED pipeVars

\* Lines 434-442: the status poll, every five seconds on the event loop; it
\* runs the probe and writes status_dot and status_label.
CheckSwinsian ==
    /\ seen' = seen \cup {<<"fg", "probe">>, <<"fg", "widget">>}
    /\ UNCHANGED <<btn, queue, workers, started, logBox, applied>>
    /\ UNCHANGED pipeVars
\* Variant: _run calls the pipeline itself.
WorkerThread_inline == "fg"

\* Lines 470-472: _worker is the target of a thread of its own.
WorkerThread == "worker"

UILibraries == { <<>>, << Row(<<"A">>, <<"2">>) >> }

UIReplies == { <<"{", "M2", "}">>, <<"{", "}">>, <<"Z", "a">> }

\* What get_library_tracks returns, and what the parsing in ask_claude gives.
UITracks == {GetLibraryTracks(RawOf(rows)) : rows \in UILibraries}

UIOutcomes == {ParseReply(text) : text \in UIReplies}

Worker(k, rec) == workers' = [workers EXCEPT ![k] = rec]

\* Variant: the error is logged and the button is left as it is.
OnError_nofinally(q, k) == Post(q, k, << <<"error">> >>)

\* Lines 496-499: except Exception logs the error, finally posts the enable.
OnError(q, k) == SetRunning(Post(q, k, << <<"error">> >>), k, FALSE)

Fail(q, k) ==
    /\ queue' = OnError(q, k)
    /\ Worker(k, [workers[k] EXCEPT !.pc = "done", !.failed = TRUE])

\* Lines 476-486: the first log lines, get_library_tracks, and the log lines
\* up to the call of ask_claude.
WFetch(k) ==
    /\ workers[k].pc = "begin"
    /\ seen' = seen \cup {<<WorkerThread, "fetch">>}
    /\ LET q == queue
       IN  \/ \E ts \in UITracks :
                /\ queue' = Post(q, k, << <<"found", Len(ts)>> >>)
                /\ Worker(k, [workers[k] EXCEPT
                        !.pc = "ask", !.tracks = ts, !.fetched = TRUE])
           \/ Fail(q, k)

\* Lines 486-491 with ask_claude (l.119-173): the catalog, the model call,
\* the parsing of the reply, and the log lines up to create_playlist.
WAsk(k) ==
    /\ workers[k].pc = "ask"
    /\ UseFull(Len(workers[k].tracks))
    /\ seen' = seen \cup {<<WorkerThread, "model">>}
    /\ LET q == Post(queue, k, << <<"sending full", Len(workers[k].tracks)>> >>)
           me == [workers[k] EXCEPT !.modelCalled = TRUE]
       IN  \/ \E out \in UIOutcomes :
                IF out.err = "none"
                THEN /\ queue' = Post(q, k, << <<"name", out.result[1]>> >>)
                     /\ Worker(k, [me EXCEPT !.pc = "create", !.asked = TRUE,
                            !.name = out.result[1], !.ids = out.result[2]])
                ELSE /\ queue' = OnError(q, k)
                     /\ Worker(k, [me EXCEPT !.pc = "done", !.failed = TRUE])
           \/ /\ queue' = OnError(q, k)
              /\ Worker(k, [me EXCEPT !.pc = "done", !.failed = TRUE])

\* Lines 492-494 and 498-499: the Done line after create_playlist returned n,
\* and the enable posted by finally.
Done(q, k, n) == SetRunning(Post(q, k, << <<"done", n>> >>), k, FALSE)

\* create_playlist l.176-203: the lookup, the shuffle, the return of 0 on an
\* empty selection, the New Playlist menu script.
WCreate(k) ==
    /\ workers[k].pc = "create"
    /\ LET resolved == ResolveIds(workers[k].ids, workers[k].tracks)
           me == [workers[k] EXCEPT !.createCalled = TRUE]
       IN  \E shuffle \in BOOLEAN :
           \E sel \in (IF shuffle THEN Shuffles(resolved) ELSE {resolved}) :
               IF sel = <<>>
               THEN /\ queue' = Done(Post(queue, k, << <<"no matching">> >>), k, 0)
                    /\ Worker(k, [me EXCEPT !.pc = "done", !.reported = TRUE])
                    /\ UNCHANGED seen
               ELSE /\ seen' = seen \cup {<<WorkerThread, "create">>}
                    /\ LET q == Post(queue, k, << <<"creating", Len(sel)>> >>) IN
                        \/ /\ queue' = q
                           /\ Worker(k, [me EXCEPT
                                !.pc = "batches", !.selected = sel, !.b = 0])
                        \/ /\ queue' = OnError(q, k)
                           /\ Worker(k, [me EXCEPT !.pc = "done", !.failed = TRUE])

\* create_playlist l.209-219: one pass of the loop over range(batches); after
\* the last one the function returns len(selected).
WBatch(k) ==
    /\ workers[k].pc = "batches"
    /\ workers[k].b < NumBatches(Len(workers[k].selected))
    /\ seen' = seen \cup {<<WorkerThread, "batch">>}
    /\ LET n == Len(workers[k].selected)
           q == Post(queue, k, << <<"added", Min((workers[k].b + 1) * BATCH, n)>> >>)
       IN  \/ /\ workers[k].b + 1 < NumBatches(n)
              /\ queue' = q
              /\ Worker(k, [workers[k] EXCEPT !.b = @ + 1])
           \/ /\ workers[k].b + 1 >= NumBatches(n)
              /\ queue' = Done(q, k, n)
              /\ Worker(k, [workers[k] EXCEPT
                    !.b = @ + 1, !.pc = "done", !.reported = TRUE])
           \/ Fail(queue, k)

\* One step of the thread started by the k-th press.
WorkerStep(k) ==
    /\ k \in DOMAIN workers
    /\ \/ WFetch(k) \/ WAsk(k) \/ WCreate(k) \/ WBatch(k)
    /\ UNCHANGED <<btn, started, logBox, applied>>
    /\ UNCHANGED pipeVars

InitUI ==
    /\ pc = "ui"
    /\ raw = NoRaw
    /\ tracks = <<>>
    /\ desc = ""
    /\ catalog = <<>>
    /\ sent = <<>>
    /\ reply = <<>>
    /\ result = <<>>
    /\ err = "none"
    /\ errText = <<>>
    /\ playlist_name = <<>>
    /\ track_ids = <<>>
    /\ randomise = TRUE
    /\ selected = <<>>
    /\ calls = <<>>
    /\ b = 0
    /\ added = 0
    /\ ret = <<>>
    /\ playlist = <<>>
    /\ InitOther

NextUI ==
    \/ Press
    \/ ApplyUpdate
    \/ CheckSwinsian
    \/ \E k \in 1..MaxRuns : WorkerStep(k)

SpecUI == InitUI /\ [][NextUI]_vars

\* The threads get to run, the external calls return, and the event loop
\* keeps running posted callbacks.
SpecUIFair ==
    /\ SpecUI
    /\ WF_vars(ApplyUpdate)
    /\ \A k \in 1..MaxRuns : WF_vars(WorkerStep(k))
(***************************************************************************)
(* C13 as stated: in the window's worker as in main, a library read that   *)
(* yields no tracks ends the run before the model is called, and a result  *)
(* without ids ends it before the materializer is called and before the    *)
(* playlist is reported as created.                                        *)
(***************************************************************************)
C13_EmptyIsFatal ==
    \A k \in DOMAIN workers :
        /\ (workers[k].fetched /\ workers[k].tracks = <<>>) =>
                ~workers[k].modelCalled
        /\ (workers[k].asked /\ workers[k].ids = <<>>) =>
                ~workers[k].createCalled /\ ~workers[k].reported

(***************************************************************************)
(* C14 as stated: every external call runs on the worker, none on the      *)
(* foreground, and widgets are written by the foreground only.             *)
(***************************************************************************)
C14_ForegroundNeverBlocks ==
    \A e \in seen :
        IF e[2] = "widget" THEN e[1] = "fg" ELSE e[1] = "worker"

(***************************************************************************)
(* C14, amended: the library read, the model call, the New Playlist script *)
(* and the batch scripts run on the worker; the only external call of the  *)
(* foreground is the liveness probe; widgets are written by the foreground *)
(* only, from callbacks the worker posted.                                 *)
(***************************************************************************)
PipelineCalls == {"fetch", "model", "create", "batch"}

C14_PipelineOnWorker ==
    \A e \in seen :
        /\ e[2] \in PipelineCalls => e[1] = "worker"
        /\ e[2] = "widget" => e[1] = "fg"
        /\ e[1] = "fg" => e[2] \in {"probe", "widget"}

\* A run went through all four pipeline calls, and a posted line was written.
C14_Witness ==
    /\ {<<"worker", c>> : c \in PipelineCalls} \subseteq seen
    /\ <<"fg", "probe">> \in seen
    /\ \E k \in DOMAIN workers : logBox = <<k, <<"done", 1>> >>

(***************************************************************************)
(* C15: every run that was started gets its enable update applied, however *)
(* the worker ended, and the enable update of a run is applied after the   *)
(* disable update of the same run; the button is in the state of the last  *)
(* update applied.                                                         *)
(***************************************************************************)
EnableFollowsDisable ==
    \A i \in DOMAIN applied :
        applied[i][2] = "normal" =>
            \E j \in 1..(i - 1) : applied[j] = <<applied[i][1], "disabled">>

C15_ButtonReenabled ==
    /\ \A k \in 1..MaxRuns :
          (started >= k) ~> (<<k, "normal">> \in Range(applied) /\ workers[k].pc = "done")
    /\ [](EnableFollowsDisable)
    /\ [](applied # <<>> => btn = applied[Len(applied)][2])

\* A run failed, its enable update was applied and the button is enabled.
C15_Witness ==
    \E k \in DOMAIN workers :
        /\ workers[k].failed
        /\ <<k, "normal">> \in Range(applied)
        /\ btn = "normal"

(***************************************************************************)
(* C16 as stated: at most one worker is running at any time.               *)
(***************************************************************************)
Running == {k \in DOMAIN workers : workers[k].pc # "done"}

C16_AtMostOneWorker == Cardinality(Running) <= 1

====
